---- MODULE Spec2Model ----
(***************************************************************************)
(* Model of cmd/warmup.go (JuiceFS `warmup` command): mount-point          *)
(* resolution by walking the ancestor chain, batching of the input paths   *)
(* into frames of at most batchMax entries, the wire encoding of a frame,  *)
(* and the write / read exchange on the control file.                      *)
(*                                                                         *)
(* Strings are sequences of byte values (47 = '/', 10 = '\n', 32 = ' ',    *)
(* 46 = '.', 97.. = 'a'..), so that strings.HasPrefix, slicing, Join and   *)
(* the frame layout are computed byte by byte as the code computes them.   *)
(* Input paths are newline-free (spec section 4.2: caller responsibility). *)
(***************************************************************************)
EXTENDS Integers, Sequences, FiniteSets, TLC

\* ------------------------------------------------------------- bounds ----
\* Largest number of command-line path arguments of a run.
MaxArgs == 3
\* Largest number of path arguments in the specification with fairness.
MaxFairArgs == 1
\* Largest batch handed to sendCommand in the encoder specification.
MaxBatch == 3

\* ---------------------------------------------------------- constants ----
\* const batchMax = 10240 in the source; scaled down so that full batches,
\* buffer reuse and a trailing partial batch all occur within MaxArgs.
batchMax == 2
\* meta.FillCache, the command code (an opaque 32-bit constant of pkg/meta).
FillCache == 1004
\* The join character of sendCommand and the separator compared in the walk.
NL == 10
Slash == 47

\* ------------------------------------------------------- string helpers --
\* strings.HasPrefix(s, prefix)
HasPrefix(s, prefix) ==
    Len(s) >= Len(prefix) /\ SubSeq(s, 1, Len(prefix)) = prefix

\* Go slice expression s[n:]
SliceFrom(s, n) == SubSeq(s, n + 1, Len(s))

\* strings.Join(batch[:count], "\n")
RECURSIVE Join(_, _)
Join(b, count) ==
    IF count = 0 THEN << >>
    ELSE IF count = 1 THEN b[1]
    ELSE Join(b, count - 1) \o <<NL>> \o b[count]

\* strings.Split(s, sep) for a one-byte separator: always at least one piece.
RECURSIVE SplitOn(_, _)
SplitOn(s, sep) ==
    IF \A k \in 1..Len(s) : s[k] # sep THEN <<s>>
    ELSE LET k == CHOOSE k \in 1..Len(s) :
                      s[k] = sep /\ \A j \in 1..(k - 1) : s[j] # sep
         IN  <<SubSeq(s, 1, k - 1)>> \o SplitOn(SubSeq(s, k + 1, Len(s)), sep)

\* strings.TrimSpace(s), for the blank characters space and tab.
RECURSIVE TrimSpace(_)
TrimSpace(s) ==
    IF s = << >> THEN s
    ELSE IF s[1] \in {32, 9} THEN TrimSpace(Tail(s))
    ELSE IF s[Len(s)] \in {32, 9} THEN TrimSpace(SubSeq(s, 1, Len(s) - 1))
    ELSE s

\* ---------------------------------------------------------- path helpers --
\* filepath.Clean on the segments of an absolute path: drops empty and "."
\* segments, ".." removes the previous segment.
RECURSIVE CleanSegs(_, _)
CleanSegs(segs, acc) ==
    IF segs = << >> THEN acc
    ELSE LET h == Head(segs) IN
         IF h = << >> \/ h = <<46>> THEN CleanSegs(Tail(segs), acc)
         ELSE IF h = <<46, 46>>
              THEN CleanSegs(Tail(segs),
                             IF acc = << >> THEN acc
                             ELSE SubSeq(acc, 1, Len(acc) - 1))
              ELSE CleanSegs(Tail(segs), Append(acc, h))

RECURSIVE JoinSegs(_)
JoinSegs(segs) ==
    IF segs = << >> THEN << >>
    ELSE <<Slash>> \o Head(segs) \o JoinSegs(Tail(segs))

\* filepath.Clean of an absolute path
Clean(p) ==
    LET segs == CleanSegs(SplitOn(p, Slash), << >>)
    IN  IF segs = << >> THEN <<Slash>> ELSE JoinSegs(segs)

\* filepath.IsAbs
IsAbs(p) == Len(p) > 0 /\ p[1] = Slash

\* filepath.Abs(p) with working directory wd
Abs(p, wd) == IF IsAbs(p) THEN Clean(p) ELSE Clean(wd \o <<Slash>> \o p)

\* filepath.Dir of a clean absolute path
Dir(p) ==
    LET segs == CleanSegs(SplitOn(p, Slash), << >>)
    IN  IF Len(segs) <= 1 THEN <<Slash>>
        ELSE JoinSegs(SubSeq(segs, 1, Len(segs) - 1))

\* ------------------------------------------------------ the file system --
RootDir == <<Slash>>                         \* "/"
DirA    == <<47, 97>>                        \* "/a"
DirAB   == <<47, 97, 47, 98>>                \* "/a/b"
DirABC  == <<47, 97, 47, 98, 47, 99>>        \* "/a/b/c"
DirAB2  == <<47, 97, 47, 98, 50>>            \* "/a/b2"
DirO    == <<47, 111>>                       \* "/o"
Dirs    == {RootDir, DirA, DirAB, DirABC, DirAB2, DirO}
Files   == { <<47, 97, 47, 98, 47, 99, 47, 102>>,     \* "/a/b/c/f"
             <<47, 97, 47, 98, 50, 47, 120>>,         \* "/a/b2/x"
             <<47, 111, 47, 122>> }                   \* "/o/z"
\* Directories at which a JuiceFS instance may be exposed (inode 1).
MountCandidates == {RootDir, DirA, DirAB, DirABC}

\* The paths a user may pass on the command line.
PathPool == { <<47, 97, 47, 98, 47, 99, 47, 102>>,    \* "/a/b/c/f"
              <<47, 97, 47, 98, 47, 99, 47>>,         \* "/a/b/c/"
              <<47, 97, 47, 98, 50, 47, 120>>,        \* "/a/b2/x"
              <<47, 111, 47, 122>>,                   \* "/o/z"
              <<99, 47, 102>> }                       \* "c/f"
\* The lines of the --file argument, when one is given.
FileLines == << <<32, 47, 97, 47, 98, 47, 99, 47, 102, 32>>,   \* " /a/b/c/f "
                <<32>>,                                        \* " "
                <<47, 97, 47, 98, 50, 47, 120>> >>             \* "/a/b2/x"
Cwds == {DirAB, RootDir}
ThreadValues == {50, 65537}
StatusBytes == {0, 3}

RECURSIVE SeqsUpTo(_, _)
SeqsUpTo(S, n) ==
    IF n = 0 THEN { << >> }
    ELSE LET shorter == SeqsUpTo(S, n - 1)
         IN  shorter \cup { Append(s, x) : s \in { t \in shorter : Len(t) = n - 1 }, x \in S }

VARIABLES
    args,        \* ctx.Args().Slice()
    fname,       \* TRUE iff ctx.String("file") is not ""
    cwd,         \* the process's working directory
    inodes,      \* the file system: inode number of every directory
    pc,          \* position of the run
    paths,       \* the path list after the file's lines were appended
    first,       \* filepath.Abs(paths[0])
    mp,          \* the candidate / resolved mount point
    lookups,     \* directories passed to utils.GetFileInode, in order
    controller,  \* "none", "open" or "closed"
    threads, background, start,
    batch, index,
    pos,         \* number of input paths the range loop has consumed
    count,       \* the count argument of the sendCommand call in progress
    final,       \* TRUE iff that call is the one after the loop (line 142)
    frames,      \* byte strings written successfully to the control file
    calls,       \* <<batch[:count], count>> of every sendCommand call
    ops,         \* channel operations attempted: "w" and "r"
    replies,     \* status bytes read
    ioErrors,    \* channel operations that failed (error, short write or read)
    bar,         \* the progress counter
    accepted,    \* positions (1-based) of the input paths put in the batch
    warned,      \* positions of the input paths skipped with a warning
    fatal, code  \* which logger.Fatalf ended the run, and its status code

inputVars == <<args, fname, cwd, inodes>>
resolveVars == <<paths, first, mp, lookups>>
flagVars == <<controller, threads, background, start>>
loopVars == <<batch, index, pos, accepted, warned>>
callVars == <<count, final>>
chanVars == <<frames, calls, ops, replies, ioErrors>>
endVars == <<fatal, code>>
vars == <<args, fname, cwd, inodes, pc, paths, first, mp, lookups, controller,
          threads, background, start, batch, index, pos, count, final, frames,
          calls, ops, replies, ioErrors, bar, accepted, warned, fatal, code>>

Init ==
    /\ args \in SeqsUpTo(PathPool, MaxArgs)
    /\ fname \in BOOLEAN
    /\ cwd \in Cwds
    /\ \E ones \in SUBSET MountCandidates :
           inodes = [d \in Dirs |-> IF d \in ones THEN 1 ELSE 2]
    /\ pc = "input"
    /\ paths = << >> /\ first = << >> /\ mp = << >> /\ lookups = << >>
    /\ controller = "none"
    /\ threads = 0 /\ background = FALSE /\ start = 0
    /\ batch = << >> /\ index = 0 /\ pos = 0
    /\ count = 0 /\ final = FALSE
    /\ frames = << >> /\ calls = << >> /\ ops = << >> /\ replies = << >>
    /\ ioErrors = 0
    /\ bar = 0
    /\ accepted = << >> /\ warned = << >>
    /\ fatal = "none" /\ code = 0

\* logger.Fatalf: the process exits at once (deferred calls do not run).
Fatalf(kind, c) == pc' = "fatal" /\ fatal' = kind /\ code' = c

\* ------------------------------------------------------ the wire format --
\* utils.Buffer.Put32 / Put16 / Put8: fixed-width integers, little-endian.
Put32(v) == << v % 256, (v \div 256) % 256, (v \div 65536) % 256,
               (v \div 16777216) % 256 >>
Put16(v) == << v % 256, (v \div 256) % 256 >>
Put8(v) == << v % 256 >>

\* Mutant: the outer length leaves out the background flag byte.
FrameBytesShortLen(b, cnt, thr, bg) ==
    LET joined == Join(b, cnt)
        back == IF bg THEN 1 ELSE 0
    IN  Put32(FillCache)
        \o Put32(4 + 2 + Len(joined))
        \o Put32(Len(joined))
        \o joined
        \o Put16(thr % 65536)
        \o Put8(back)

\* The bytes sendCommand writes: wb.Bytes() after the six Put calls.
\* uint16(threads) truncates. uint32(len(paths)) cannot: a batch holds at most
\* 10240 entries, each at most one scanner token (64 KiB) or one argument
\* long, so the joined block stays below 2^32 bytes.
FrameBytes(b, cnt, thr, bg) ==
    LET joined == Join(b, cnt)
        back == IF bg THEN 1 ELSE 0
    IN  Put32(FillCache)
        \o Put32(4 + 3 + Len(joined))
        \o Put32(Len(joined))
        \o joined
        \o Put16(thr % 65536)
        \o Put8(back)

\* --------------------------------------------------------------- warmup --
\* Lines 63-84: collect the paths from the arguments and the --file lines.
RECURSIVE ScanLines(_)
ScanLines(lines) ==
    IF lines = << >> THEN << >>
    ELSE LET p == TrimSpace(Head(lines))
         IN  (IF p # << >> THEN <<p>> ELSE << >>) \o ScanLines(Tail(lines))

ReadInput ==
    /\ pc = "input"
    /\ \E openOk \in BOOLEAN, scanOk \in BOOLEAN :
          IF fname /\ ~openOk
          THEN Fatalf("open_file", 0) /\ UNCHANGED paths
          ELSE IF fname /\ ~scanOk
          THEN Fatalf("scan_file", 0) /\ UNCHANGED paths
          ELSE /\ paths' = IF fname THEN args \o ScanLines(FileLines) ELSE args
               /\ pc' = IF Len(paths') = 0 THEN "done" ELSE "abs"
               /\ UNCHANGED endVars
    /\ UNCHANGED <<inputVars, first, mp, lookups, flagVars, loopVars, callVars,
                   chanVars, bar>>

\* Mutant: the walk always starts at the parent of the first path.
startCandidateParent(f) == Dir(f)

\* Lines 95-100: the first candidate is the path itself if it is a
\* directory, otherwise its parent directory.
startCandidate(f) == IF f \in Dirs THEN f ELSE Dir(f)

\* Lines 87-100: absolute form of the first path, stat, first candidate.
ResolveStart ==
    /\ pc = "abs"
    /\ \E getwdOk \in BOOLEAN, statOk \in BOOLEAN :
          LET abs == Abs(paths[1], cwd) IN
          IF ~IsAbs(paths[1]) /\ ~getwdOk
          THEN Fatalf("abs", 0) /\ UNCHANGED <<first, mp>>
          ELSE IF ~statOk \/ abs \notin (Dirs \cup Files)
          THEN Fatalf("stat", 0) /\ first' = abs /\ UNCHANGED mp
          ELSE /\ first' = abs
               /\ mp' = startCandidate(abs)
               /\ pc' = "walk"
               /\ UNCHANGED endVars
    /\ UNCHANGED <<inputVars, paths, lookups, flagVars, loopVars, callVars,
                   chanVars, bar>>

\* utils.GetFileInode(dir) when the lookup succeeds
GetFileInode(dir) == inodes[dir]

\* Mutant: any inode number is taken for the root inode.
isRootInodeAny(inode) == inode >= 1

\* Line 106: the candidate is the mount point iff its inode is 1.
isRootInode(inode) == inode = 1

\* Lines 101 and 110: the walk stops, and fails, at the file system root.
atFsRoot(m) == m = <<Slash>>

\* Mutant: the walk does not move to the parent directory.
walkUpStay(m) == m

\* Line 101: the post statement of the walk, mp = filepath.Dir(mp).
walkUp(m) == Dir(m)

\* Lines 101-112: one iteration of the ancestor walk, or its exit at "/".
Walk ==
    /\ pc = "walk"
    /\ IF atFsRoot(mp)
       THEN Fatalf("not_mounted", 0) /\ UNCHANGED <<mp, lookups>>
       ELSE \E lookupOk \in BOOLEAN :
              /\ lookups' = Append(lookups, mp)
              /\ IF ~lookupOk
                 THEN Fatalf("inode", 0) /\ UNCHANGED mp
                 ELSE IF isRootInode(GetFileInode(mp))
                 THEN pc' = "open" /\ UNCHANGED <<mp, endVars>>
                 ELSE mp' = walkUp(mp) /\ UNCHANGED <<pc, endVars>>
    /\ UNCHANGED <<inputVars, paths, first, flagVars, loopVars, callVars,
                   chanVars, bar>>

\* Lines 114-126: open the control file, read the flags, set up the batch.
OpenController ==
    /\ pc = "open"
    /\ \E openOk \in BOOLEAN, t \in ThreadValues, bg \in BOOLEAN :
          IF ~openOk
          THEN /\ Fatalf("open_controller", 0)
               /\ UNCHANGED <<flagVars, batch>>
          ELSE /\ controller' = "open"
               /\ threads' = t
               /\ background' = bg
               /\ start' = Len(mp)
               /\ batch' = [k \in 1..batchMax |-> << >>]
               /\ pc' = "loop"
               /\ UNCHANGED endVars
    /\ UNCHANGED <<inputVars, resolveVars, index, pos, accepted, warned,
                   callVars, chanVars, bar>>

\* Line 128: the test that accepts an input path.
underMountPoint(path, m) == HasPrefix(path, m)

\* Mutant: the separator after the mount point is cut off with the prefix.
batchPutNoSeparator(b, idx, path, st) ==
    [b EXCEPT ![idx + 1] = SliceFrom(path, st + 1)]

\* Mutant: every entry is stored in the first slot of the batch.
batchPutFirst(b, idx, path, st) == [b EXCEPT ![1] = SliceFrom(path, st)]

\* Line 129: batch[index] = path[start:] (Go indexes from 0).
batchPut(b, idx, path, st) == [b EXCEPT ![idx + 1] = SliceFrom(path, st)]

\* Mutant: the batch is flushed one entry before it is full.
batchFullEarly(idx) == idx + 1 >= batchMax

\* Line 135: the batch is flushed when it is full.
batchFull(idx) == idx >= batchMax

\* Mutant: the remainder is flushed even when it is empty.
hasRemainderAlways(idx) == idx >= 0

\* Line 141: after the loop a non-empty remainder is flushed.
hasRemainder(idx) == idx > 0

\* Line 138: the fill index after a flush inside the loop.
indexAfterFlush(idx) == 0

\* Mutants: the status byte is awaited in both modes, or in neither.
awaitsReplyAlways(bg) == TRUE
awaitsReplyNever(bg) == FALSE

\* Line 49: only a foreground request waits for the status byte.
awaitsReply(bg) == ~bg

\* Line 46: the write failed iff cf.Write returned an error (os.File.Write
\* returns one whenever it wrote fewer bytes than given).
writeFailed(ok) == ~ok

\* Mutant: a read that returns no byte and no error is taken for a reply.
readFailedErrOnly(n, err) == err

\* Line 54: the read failed iff it returned an error or not exactly 1 byte.
readFailed(n, err) == err \/ n # 1

\* Mutant: the progress counter counts flushes, not entries.
barIncrByOne(b, idx) == b + 1

\* Lines 137 and 143: bar.IncrBy(index)
barIncrBy(b, idx) == b + idx

\* Mutant: only status 1 is taken for a failure.
statusFailedOnlyOne(b) == b = 1

\* Line 57: any nonzero status byte is a failure.
statusFailed(b) == b # 0

\* Lines 127-140: the body of the range loop for the next input path.
LoopBody ==
    /\ pc = "loop"
    /\ pos < Len(paths)
    /\ LET path == paths[pos + 1] IN
       IF underMountPoint(path, mp)
       THEN /\ batch' = batchPut(batch, index, path, start)
            /\ index' = index + 1
            /\ accepted' = Append(accepted, pos + 1)
            /\ IF batchFull(index')
               THEN /\ pc' = "write"
                    /\ count' = index'
                    /\ final' = FALSE
                    /\ calls' = Append(calls, <<SubSeq(batch', 1, index'), index'>>)
               ELSE UNCHANGED <<pc, callVars, calls>>
            /\ UNCHANGED warned
       ELSE /\ warned' = Append(warned, pos + 1)
            /\ UNCHANGED <<batch, index, accepted, pc, callVars, calls>>
    /\ pos' = pos + 1
    /\ UNCHANGED <<inputVars, resolveVars, flagVars, frames, ops, replies, ioErrors,
                   bar, endVars>>

\* Lines 141-147: after the loop, flush the remainder or finish.
LoopEnd ==
    /\ pc = "loop"
    /\ pos = Len(paths)
    /\ IF hasRemainder(index)
       THEN /\ pc' = "write"
            /\ count' = index
            /\ final' = TRUE
            /\ calls' = Append(calls, <<SubSeq(batch, 1, index), index>>)
            /\ UNCHANGED controller
       ELSE /\ pc' = "done"
            /\ controller' = "closed"
            /\ UNCHANGED <<callVars, calls>>
    /\ UNCHANGED <<inputVars, resolveVars, threads, background, start,
                   loopVars, frames, ops, replies, ioErrors, bar, endVars>>

\* sendCommand returns to warmup: bar.IncrBy(index), then line 138 or 145-147.
ReturnToWarmup ==
    /\ bar' = barIncrBy(bar, index)
    /\ IF final
       THEN pc' = "done" /\ controller' = "closed" /\ UNCHANGED index
       ELSE pc' = "loop" /\ index' = indexAfterFlush(index) /\ UNCHANGED controller

\* Lines 34-52: build the frame and write it; return at once in background.
sendCommandWrite ==
    /\ pc = "write"
    /\ \E writeOk \in BOOLEAN :
          /\ ops' = Append(ops, "w")
          /\ ioErrors' = IF writeOk THEN ioErrors ELSE ioErrors + 1
          /\ IF writeFailed(writeOk)
             THEN /\ Fatalf("write", 0)
                  /\ UNCHANGED <<frames, bar, index, controller>>
             ELSE /\ frames' = Append(frames,
                                      FrameBytes(batch, count, threads, background))
                  /\ UNCHANGED endVars
                  /\ IF awaitsReply(background)
                     THEN pc' = "read" /\ UNCHANGED <<bar, index, controller>>
                     ELSE ReturnToWarmup
    /\ UNCHANGED <<inputVars, resolveVars, threads, background, start, batch,
                   pos, accepted, warned, callVars, calls, replies>>

\* Lines 53-59: read the one status byte.
sendCommandRead ==
    /\ pc = "read"
    /\ \E n \in {0, 1}, readErr \in BOOLEAN, b \in StatusBytes :
          /\ ops' = Append(ops, "r")
          /\ ioErrors' = IF readErr \/ n # 1 THEN ioErrors + 1 ELSE ioErrors
          /\ IF readFailed(n, readErr)
             THEN /\ Fatalf("read", 0)
                  /\ UNCHANGED <<replies, bar, index, controller>>
             ELSE /\ replies' = Append(replies, b)
                  /\ IF statusFailed(b)
                     THEN /\ Fatalf("remote", b)
                          /\ UNCHANGED <<bar, index, controller>>
                     ELSE ReturnToWarmup /\ UNCHANGED endVars
    /\ UNCHANGED <<inputVars, resolveVars, threads, background, start, batch,
                   pos, accepted, warned, callVars, frames, calls>>

Next ==
    \/ ReadInput
    \/ ResolveStart
    \/ Walk
    \/ OpenController
    \/ LoopBody
    \/ LoopEnd
    \/ sendCommandWrite
    \/ sendCommandRead

Spec == Init /\ [][Next]_vars

\* The runs of at most MaxFairArgs arguments (plus the --file lines), on a
\* file system whose "/" is not an instance root: the walk never looks up
\* "/", so its inode number does not change any run.
FairInit == Init /\ Len(args) <= MaxFairArgs /\ inodes[RootDir] # 1

\* Every system call of the run returns: the file system calls, cf.Write and
\* the cf.Read a foreground request waits in. warmup is one sequential
\* thread, so at most one step is enabled at a time.
FairSpec == FairInit /\ [][Next]_vars /\ WF_vars(Next)

\* ------------------------------------------- sendCommand on its own -----
\* The encoder as a pure function: sendCommand is applied to every batch of
\* up to MaxBatch entries drawn from EntryPool (newline-free, one empty),
\* with every count, thread value and mode, and the write succeeds.
EntryPool == { << >>,                          \* ""
               <<47, 120>>,                    \* "/x"
               <<47, 99, 47, 102>>,            \* "/c/f"
               <<50, 47, 120>> }               \* "2/x"

EncInit ==
    /\ batch \in [1..MaxBatch -> EntryPool]
    /\ count \in 1..MaxBatch
    /\ threads \in ThreadValues
    /\ background \in BOOLEAN
    /\ pc = "write"
    /\ controller = "open"
    /\ final = TRUE
    /\ index = count
    /\ calls = << <<SubSeq(batch, 1, count), count>> >>
    /\ args = << >> /\ fname = FALSE /\ cwd = RootDir
    /\ inodes = [d \in Dirs |-> 2]
    /\ paths = << >> /\ first = << >> /\ mp = << >> /\ lookups = << >>
    /\ start = 0 /\ pos = 0
    /\ frames = << >> /\ ops = << >> /\ replies = << >>
    /\ ioErrors = 0
    /\ bar = 0
    /\ accepted = << >> /\ warned = << >>
    /\ fatal = "none" /\ code = 0

EncNext ==
    \/ sendCommandWrite
    \/ sendCommandRead

EncSpec == EncInit /\ [][EncNext]_vars

\* ===================================================== the receiver's view
\* What the service reading the control file decodes from a frame.
Get32(f, off) ==
    f[off + 1] + 256 * f[off + 2] + 65536 * f[off + 3] + 16777216 * f[off + 4]
Get16(f, off) == f[off + 1] + 256 * f[off + 2]
FrameCommand(f) == Get32(f, 0)
FramePayloadLen(f) == Get32(f, 4)
FrameBlockLen(f) == Get32(f, 8)
FrameBlock(f) == SubSeq(f, 13, 12 + FrameBlockLen(f))
FrameThreads(f) == Get16(f, 12 + FrameBlockLen(f))
FrameFlag(f) == f[15 + FrameBlockLen(f)]
FrameEntries(f) == SplitOn(FrameBlock(f), NL)

\* The entry lists of a sequence of frames, concatenated in write order.
RECURSIVE ConcatEntries(_)
ConcatEntries(fs) ==
    IF fs = << >> THEN << >>
    ELSE ConcatEntries(SubSeq(fs, 1, Len(fs) - 1)) \o FrameEntries(fs[Len(fs)])

\* p with its first Len(m) bytes removed.
StripPrefix(p, m) == [k \in 1..(Len(p) - Len(m)) |-> p[Len(m) + k]]

\* The run got past mount resolution and opened the control file.
Resolved == controller # "none"
\* The run returned nil after batching (not the early "nothing to warm up").
Completed == pc = "done" /\ Resolved

\* ================================================================ claims ==
\* C1: when every input path starts with the resolved mount point and all
\* I/O succeeds, the entries of the written frames, concatenated in write
\* order, are exactly the input paths with the mount point prefix removed:
\* same order, none lost, none duplicated, none split over two frames.
C1_FramesCarryAllPaths ==
    (Completed /\ \A k \in 1..Len(paths) : HasPrefix(paths[k], mp))
        => ConcatEntries(frames) =
               [k \in 1..Len(paths) |-> StripPrefix(paths[k], mp)]

\* C1 witness: a completed run of more paths than a batch holds, all under
\* the mount point, so that the batch buffer was refilled after a flush.
C1_Witness ==
    /\ Completed
    /\ \A k \in 1..Len(paths) : HasPrefix(paths[k], mp)
    /\ Len(paths) > 2 * batchMax
    /\ Len(frames) = 3
    /\ paths[1] # paths[2]

\* C2: every sendCommand call made by warmup has 1 <= count <= batchMax.
C2_CountInRange ==
    /\ \A k \in 1..Len(calls) : calls[k][2] >= 1 /\ calls[k][2] <= batchMax
    /\ pc \in {"write", "read"} => (count >= 1 /\ count <= batchMax)

\* C2 witness: a run that made a call with a full batch and a call with a
\* single remaining entry.
C2_Witness ==
    /\ Len(calls) = 2
    /\ calls[1][2] = batchMax
    /\ calls[2][2] = 1
    /\ pc = "done"

\* The sum of the lengths of the first n entries.
RECURSIVE TotalLen(_, _)
TotalLen(es, n) == IF n = 0 THEN 0 ELSE TotalLen(es, n - 1) + Len(es[n])

\* Frame f is the wire form of the entry list es for mode bg.
WellFormedFrame(f, es, bg) ==
    LET N == TotalLen(es, Len(es)) + (Len(es) - 1) IN
    /\ FrameCommand(f) = FillCache
    /\ FramePayloadLen(f) = 4 + 3 + N
    /\ FrameBlockLen(f) = N
    /\ Len(f) = 8 + FramePayloadLen(f)
    /\ Len(f) = 4 + 4 + 4 + N + 2 + 1
    /\ FrameEntries(f) = es
    /\ \A k \in 1..Len(f) : f[k] \in 0..255
    /\ FrameFlag(f) = (IF bg THEN 1 ELSE 0)

\* C3: the frame sendCommand builds for a batch of newline-free entries is
\* command code, outer length 4 + 3 + N, inner length N, the N bytes of the
\* entries joined by newline, two bytes of thread count and the background
\* flag (1 iff background); it is 8 + outer length bytes long, and splitting
\* its path block on newline gives back the batch entries in order.
C3_FrameLayout ==
    \A k \in 1..Len(frames) : WellFormedFrame(frames[k], calls[k][1], background)

\* C3 witness: a written frame of three entries, one of them empty, sent in
\* the background.
C3_Witness ==
    /\ Len(frames) = 1
    /\ calls[1][2] = 3
    /\ calls[1][1][2] = << >>
    /\ calls[1][1][1] # << >>
    /\ background
    /\ FrameFlag(frames[1]) = 1

\* The number of channel operations of kind o attempted so far.
OpCount(o) == Cardinality({k \in 1..Len(ops) : ops[k] = o})

\* C4: in synchronous mode exactly one status byte is read after each
\* written frame; a 0 lets the run continue with the next batch, any other
\* value ends the run in a fatal failure carrying that value, and no
\* further frame is written.
C4_SyncStatus ==
    (Resolved /\ ~background) =>
        /\ pc \in {"loop", "write", "done"} =>
               /\ OpCount("r") = Len(frames)
               /\ Len(replies) = Len(frames)
               /\ \A k \in 1..Len(replies) : replies[k] = 0
        /\ pc = "read" => OpCount("r") = Len(frames) - 1
        /\ \A k \in 1..Len(replies) :
               replies[k] # 0 =>
                   /\ k = Len(replies)
                   /\ pc = "fatal" /\ fatal = "remote" /\ code = replies[k]
                   /\ Len(frames) = k
        /\ fatal = "remote" => (replies # << >> /\ replies[Len(replies)] # 0)

\* C4 witness: a synchronous run whose first frame was answered 0, which
\* went on to write a second frame, and was ended by the answer 3 to it.
C4_Witness ==
    /\ Resolved /\ ~background
    /\ replies = <<0, 3>>
    /\ Len(frames) = 2
    /\ pc = "fatal" /\ fatal = "remote" /\ code = 3

\* The number of entries in the first n sendCommand calls.
RECURSIVE EntriesOfCalls(_)
EntriesOfCalls(n) == IF n = 0 THEN 0 ELSE EntriesOfCalls(n - 1) + calls[n][2]

\* C5: in background mode no read is ever performed on the control file:
\* a flush has returned as soon as its frame is written, and no reply (or
\* lack of one) can fail the run.
C5_BackgroundNeverReads ==
    (Resolved /\ background) =>
        /\ OpCount("r") = 0
        /\ replies = << >>
        /\ pc # "read"
        /\ fatal \notin {"read", "remote"}
        /\ bar = EntriesOfCalls(Len(frames))
        /\ pc = "write" => Len(frames) = Len(calls) - 1
        /\ pc \in {"loop", "done"} => Len(frames) = Len(calls)

\* C5 witness: a background run that completed after writing three frames.
C5_Witness ==
    /\ Completed /\ background
    /\ Len(frames) = 3
    /\ ops = <<"w", "w", "w">>
    /\ bar = 5

\* The input paths accepted so far, as the entries they were stored as.
AcceptedEntries == [k \in 1..Len(accepted) |-> StripPrefix(paths[accepted[k]], mp)]

\* C6: no pipelining. In synchronous mode the channel operations alternate
\* write, read, write, read, ...: at most one frame is unanswered at any
\* time, and the frames carry the accepted paths in input order.
C6_NoPipelining ==
    (Resolved /\ ~background) =>
        /\ \A k \in 1..Len(ops) : ops[k] = (IF k % 2 = 1 THEN "w" ELSE "r")
        /\ Len(frames) - Len(replies) \in {0, 1}
        /\ Len(frames) - Len(replies) = 1 => pc \in {"read", "fatal"}
        /\ \A k \in 1..(Len(accepted) - 1) : accepted[k] < accepted[k + 1]
        /\ LET sent == ConcatEntries(frames) IN
           /\ Len(sent) <= Len(accepted)
           /\ sent = SubSeq(AcceptedEntries, 1, Len(sent))

\* C6 witness: a synchronous run that completed with three frames written
\* and answered in turn.
C6_Witness ==
    /\ Completed /\ ~background
    /\ ops = <<"w", "r", "w", "r", "w", "r">>
    /\ Len(frames) = 3

\* p names root itself or something below the directory root.
IsUnder(p, root) ==
    \/ p = root
    \/ root = <<Slash>> /\ IsAbs(p)
    \/ HasPrefix(p, root \o <<Slash>>)

\* The ancestor chain of the start path f: every directory that contains it,
\* f itself included when f is a directory.
ChainOf(f) == {q \in Dirs : IsUnder(f, q)}

\* The ancestor walk ended by finding a mount point.
WalkSucceeded == pc = "open" \/ Resolved \/ fatal = "open_controller"

\* C7: mount resolution returns the deepest directory with inode 1 on the
\* ancestor chain of the start path (the path itself if it is a directory,
\* else its parent, and upwards); it looks up the chain from the start down
\* to the result and nothing above it. From /a/b/c/f with inode 1 at /a/b
\* and not at /a/b/c the result is /a/b.
C7_NearestMountPoint ==
    /\ \A k \in 1..Len(lookups) :
           /\ lookups[k] \in ChainOf(first)
           /\ k < Len(lookups) =>
                  (inodes[lookups[k]] # 1 /\ Len(lookups[k + 1]) < Len(lookups[k]))
    /\ WalkSucceeded =>
           /\ mp \in ChainOf(first)
           /\ inodes[mp] = 1
           /\ \A q \in ChainOf(first) : inodes[q] = 1 => Len(q) <= Len(mp)
           /\ {lookups[k] : k \in 1..Len(lookups)}
                  = {q \in ChainOf(first) : Len(q) >= Len(mp)}
    /\ (/\ WalkSucceeded
        /\ first = <<47, 97, 47, 98, 47, 99, 47, 102>>
        /\ inodes[DirAB] = 1
        /\ inodes[DirABC] # 1) => mp = DirAB

\* C7 witness: resolution from /a/b/c/f found /a/b, below another instance
\* root at /a that was never looked up.
C7_Witness ==
    /\ pc = "open"
    /\ first = <<47, 97, 47, 98, 47, 99, 47, 102>>
    /\ inodes[DirABC] # 1 /\ inodes[DirAB] = 1 /\ inodes[DirA] = 1
    /\ mp = DirAB
    /\ lookups = <<DirABC, DirAB>>

\* C8: when no directory of the chain below "/" has inode 1 the run fails
\* with "not inside JuiceFS"; failures of Abs, Stat and the inode lookup are
\* fatal too. In all these failures the control file was never opened and
\* nothing was written.
C8_ResolutionFailureIsFatal ==
    /\ fatal \in {"abs", "stat", "inode", "not_mounted"} =>
           /\ pc = "fatal"
           /\ controller = "none"
           /\ frames = << >> /\ ops = << >> /\ calls = << >>
    /\ WalkSucceeded => \E q \in ChainOf(first) \ {RootDir} : inodes[q] = 1
    /\ (/\ pc \notin {"input", "abs", "walk"}
        /\ paths # << >>
        /\ fatal \notin {"abs", "stat", "inode"}
        /\ \A q \in ChainOf(first) \ {RootDir} : inodes[q] # 1)
           => /\ pc = "fatal" /\ fatal = "not_mounted"
              /\ {lookups[k] : k \in 1..Len(lookups)} = ChainOf(first) \ {RootDir}

\* C8 witness: a walk from /a/b/c/f that looked up three directories, none
\* with inode 1, and failed at "/".
C8_Witness ==
    /\ pc = "fatal" /\ fatal = "not_mounted"
    /\ lookups = <<DirABC, DirAB, DirA>>
    /\ controller = "none" /\ frames = << >>

\* C9: every entry placed in a frame comes from an input path that names the
\* mount point directory or something below it; a path in a sibling
\* directory whose name begins with the mount point's name contributes none.
C9_EntriesUnderMountPoint ==
    \A k \in 1..Len(accepted) : IsUnder(Abs(paths[accepted[k]], cwd), mp)

\* C10: an input path outside the mount point is skipped: consuming it
\* sends nothing, does not end the run and leaves the batch and its fill
\* index as they were.
C10_OutsidePathSkipped ==
    [][(/\ pc = "loop"
        /\ pos < Len(paths)
        /\ ~IsUnder(Abs(paths[pos + 1], cwd), mp))
          => (/\ pc' = "loop"
              /\ pos' = pos + 1
              /\ batch' = batch /\ index' = index
              /\ frames' = frames /\ calls' = calls
              /\ warned' = Append(warned, pos + 1))]_vars

\* The run has ended: warmup returned nil or logger.Fatalf exited.
Terminated == pc \in {"done", "fatal"}

\* C11: once opened, the control file is closed on every exit path of the
\* run, fatal errors included: no terminal state leaves it open.
C11_ClosedOnEveryExit ==
    Terminated => controller # "open"

\* C12: a run that accepts no input path writes no frame, reads nothing and
\* succeeds: an empty list returns before mount resolution and before the
\* control file is opened; a list whose paths are all skipped ends with nil.
C12_NothingAccepted ==
    /\ accepted = << >> => (frames = << >> /\ ops = << >> /\ calls = << >>)
    /\ (pc # "input" /\ paths = << >>) =>
           /\ pc = "done" \/ fatal \in {"open_file", "scan_file"}
           /\ first = << >> /\ lookups = << >> /\ controller = "none"
    /\ (Resolved /\ pos = Len(paths) /\ accepted = << >> /\ pc # "loop") =>
           (pc = "done" /\ controller = "closed" /\ fatal = "none")

\* C12 witness: a completed run over two paths, both skipped, after a
\* successful mount resolution.
C12_Witness ==
    /\ Completed
    /\ Len(paths) = 2 /\ Len(warned) = 2
    /\ accepted = << >> /\ frames = << >>

\* C13: the thread count field of every frame decodes to the requested
\* thread count.
C13_ThreadsCarried ==
    \A k \in 1..Len(frames) : FrameThreads(frames[k]) = threads

\* The entries the service has received, in order.
SentEntries == ConcatEntries(frames)

\* C14 as claimed: the entry of a path below the mount point is the path
\* relative to it, with no leading separator (mp/entry = path).
C14_EntryIsRelative ==
    \A k \in 1..Len(SentEntries) :
        LET path == paths[accepted[k]] IN
        (IsUnder(path, mp) /\ path # mp)
            => mp \o <<Slash>> \o SentEntries[k] = path

\* C14 amended: the entry of an accepted path is the path with its first
\* len(mp) bytes removed; for a path below the mount point it keeps the
\* leading separator (/a/b/c/f under /a/b is sent as /c/f).
C14_EntryKeepsSeparator ==
    \A k \in 1..Len(SentEntries) :
        LET path == paths[accepted[k]] IN
        /\ mp \o SentEntries[k] = path
        /\ (IsUnder(path, mp) /\ path # mp) => SentEntries[k][1] = Slash

\* C14 witness: two paths below the mount point /a/b were sent in one frame
\* as "/c/f" and "/c/".
C14_Witness ==
    /\ Completed /\ mp = DirAB
    /\ Len(frames) = 1
    /\ FrameBlock(frames[1]) = <<47, 99, 47, 102, 10, 47, 99, 47>>

\* C15: n accepted paths are sent in ceil(n / batchMax) frames, all full
\* except possibly the last; a full batch is flushed in the step that
\* appends its last entry, and no empty trailing frame follows.
C15_FrameCount ==
    LET n == Len(accepted) IN
    /\ pc = "loop" => (index < batchMax /\ index = n % batchMax
                       /\ Len(calls) = n \div batchMax
                       /\ Len(frames) = Len(calls))
    /\ \A k \in 1..Len(calls) :
           k < Len(calls) \/ ~final => calls[k][2] = batchMax
    /\ Completed =>
           /\ Len(frames) = (n + batchMax - 1) \div batchMax
           /\ \A k \in 1..Len(frames) :
                  Len(FrameEntries(frames[k]))
                      = (IF k < Len(frames) THEN batchMax
                         ELSE n - batchMax * (Len(frames) - 1))

\* C15 witness: four accepted paths sent as exactly two full frames.
C15_Witness ==
    /\ Completed
    /\ Len(accepted) = 2 * batchMax
    /\ Len(frames) = 2
    /\ calls[2][2] = batchMax

\* The sendCommand calls that have returned to warmup.
FlushesReturned == IF pc \in {"loop", "done"} THEN Len(calls) ELSE Len(calls) - 1

\* C16: the first channel I/O error ends the run at once, with no retry.
\* After a failed or short write of a frame no status byte is read and no
\* further frame is written; after a failed or short read no further frame
\* is written; the progress counter is not incremented for that frame.
C16_IOErrorIsFatal ==
    /\ ioErrors > 0 =>
           /\ ioErrors = 1
           /\ pc = "fatal" /\ fatal \in {"write", "read"}
           /\ bar = EntriesOfCalls(Len(calls) - 1)
    /\ fatal = "write" =>
           /\ ioErrors = 1
           /\ ops[Len(ops)] = "w"
           /\ OpCount("w") = Len(calls)
           /\ Len(frames) = Len(calls) - 1
    /\ fatal = "read" =>
           /\ ioErrors = 1
           /\ ops[Len(ops)] = "r"
           /\ OpCount("w") = Len(calls) /\ OpCount("r") = Len(calls)
           /\ Len(frames) = Len(calls)
           /\ Len(replies) = Len(calls) - 1

\* C16 witness: the second frame of a synchronous run was written, the read
\* of its status byte failed, and the counter shows the first frame only.
C16_Witness ==
    /\ fatal = "read" /\ pc = "fatal"
    /\ Len(frames) = 2
    /\ ops = <<"w", "r", "w", "r">>
    /\ bar = batchMax

\* C17: the progress counter is the number of entries of the frames whose
\* flush has returned; after a successful run it is the number of accepted
\* paths, skipped paths not counted.
C17_ProgressCounter ==
    /\ Resolved => bar = EntriesOfCalls(FlushesReturned)
    /\ ~Resolved => bar = 0
    /\ Completed => bar = Len(accepted)
    /\ pc = "loop" => bar = Len(accepted) - index

\* C17 witness: a completed run over three paths, two accepted and sent in
\* one frame, one skipped: the counter is 2.
C17_Witness ==
    /\ Completed
    /\ Len(paths) = 3 /\ accepted = <<1, 2>> /\ warned = <<3>>
    /\ Len(frames) = 1
    /\ bar = 2

\* C18: resolution never fails with "not inside JuiceFS" while the candidate
\* it stopped at has inode 1; in particular not when the instance is exposed
\* at "/".
C18_RootInodeStopsWalk ==
    fatal = "not_mounted" => inodes[mp] # 1

\* The walk and the loop are bounded: at most one lookup per directory of
\* the start path's chain below "/", and every input path examined once.
C19_Bounded ==
    /\ first # << >> => Len(lookups) <= Cardinality(ChainOf(first)) - 1
    /\ first = << >> => lookups = << >>
    /\ pos <= Len(paths)
    /\ Len(accepted) + Len(warned) = pos
    /\ {accepted[k] : k \in 1..Len(accepted)} \cup {warned[k] : k \in 1..Len(warned)}
           = 1..pos

\* C19: when every write and every awaited read returns, the run ends
\* (nil or fatal); the walk and the loop are bounded as above. While the
\* run waits for a status byte, the only step it can take is that read: no
\* frame is written and the run does not end before the reply arrives.
C19_Termination ==
    /\ []C19_Bounded
    /\ [][pc = "read" => (ops' = Append(ops, "r") /\ frames' = frames)]_vars
    /\ [][(pc = "walk" /\ pc' = "walk") => Len(mp') < Len(mp)]_vars
    /\ <>Terminated

\* C19 witness: a synchronous run that ended after a three-step walk and
\* two answered frames.
C19_Witness ==
    /\ Completed /\ ~background
    /\ Len(lookups) = 3
    /\ Len(replies) = 2
    /\ pos = 3

\* C20: whenever mount resolution succeeded, the first input path passes
\* the mount point test, so a completed run has written at least one frame
\* and its first entry comes from the first input path.
C20_FirstPathAccepted ==
    /\ (Resolved /\ pos >= 1) => (accepted # << >> /\ accepted[1] = 1)
    /\ Completed => frames # << >>

====
